---- MODULE Spec2Model ----
(***************************************************************************)
(* ONVIF camera IP changer (skilleye_ip_changer.py).                       *)
(*                                                                         *)
(* The model follows ONVIFIPChanger.execute_ip_change statement by         *)
(* statement: the facts fetch, the interface query, the optional           *)
(* disable-DHCP request, the primary SetNetworkInterfaces request and the  *)
(* analysis of its response, the settle wait, the re-fetch of the facts,   *)
(* the probe of the old address, the polling of the new address and the    *)
(* alternate request branch.  The device is a black box: every answer it   *)
(* gives is a nondeterministic choice from a small set of responses.       *)
(*                                                                         *)
(* ScanSpec follows ONVIFIPChanger.scan_network_for_cameras: the port      *)
(* probes of Phase 1, completing in any order, and the identity queries    *)
(* of Phase 2.  Addresses there are AddrBits wide instead of 32.           *)
(*                                                                         *)
(* A response text is modelled as the set of the fragments it contains;    *)
(* str.lower(), the substring tests and the regular expressions of the     *)
(* source are computed on those fragments.                                 *)
(***************************************************************************)
EXTENDS Integers, Sequences, FiniteSets, TLC

\* ---------------------------------------------------------------- bounds
\* size of the address universe
NumIPs == 2

\* width of an address of the scanned range, in bits
AddrBits == 2

\* hosts of the scanned world that accept a connection on some port
MaxOpen == 2
MaxThreads == 2

IPs == 1..NumIPs

VARIABLES
    cameras,          \* self.cameras: the Registry, a list of Camera
    pc,               \* position of the foreground flow
    old_ip, new_ip,   \* parameters of execute_ip_change
    current_config,   \* facts fetched at the start of the call
    all_tokens,       \* union of the interface identifiers
    interface_token,  \* all_tokens[0]
    response,         \* answer to the primary mutation request
    new_config,       \* facts re-fetched after a settle wait
    config_changed,   \* the first re-fetched facts list new_ip
    still_at_old,     \* check_onvif_port(old_ip, 80, 3.0)
    alt_sent,         \* the alternate request was posted and accepted
    attempt,          \* attempts made by the running verify_ip_change
    probe,            \* what the last attempt of verify_ip_change saw
    result,           \* value execute_ip_change returned
    ret_line,         \* source line of the return statement taken
    exc,              \* exception caught by execute_ip_change
    diag,             \* final diagnosis printed by execute_ip_change
    net,              \* requests, probes and sleeps of the call, in order
    dhcp_response,    \* answer to the disable-DHCP request
    inspected,        \* the Inspector query of the last step, if it made one
    credentials,      \* self.credentials["username"]
    accepting,        \* the ports on which each address accepts a connection
    network_obj,      \* the range scan_network_for_cameras was given
    pending,          \* futures of Phase 1 that have not completed
    open_ips,         \* open_ips of scan_network_for_cameras
    found,            \* the local list cameras of scan_network_for_cameras
    queries,          \* identity queries of Phase 2, in order
    max_threads,      \* self.config['scan_threads']
    running,          \* futures of Phase 1 a worker thread is executing
    probed,           \* times check_ip_ports probed each address in this scan
    previous,         \* addresses of the Registry when the scan started
    choice,           \* what the user typed at the main menu
    operation,        \* the operation run() started for that choice
    request,          \* what change_camera_ip has gathered from its prompts
    interrupt,        \* where a KeyboardInterrupt was delivered, if one was
    targets,          \* addresses the mutating requests of the call were posted to
    enable_dhcp       \* the mode set_dhcp_mode was asked for

vars == <<cameras, pc, old_ip, new_ip, current_config, all_tokens,
          interface_token, response, new_config, config_changed,
          still_at_old, alt_sent, attempt, probe, result, ret_line, exc,
          diag, net, dhcp_response, inspected, credentials, accepting,
          network_obj, pending, open_ips, found, queries, max_threads,
          running, probed, previous, choice, operation, request, interrupt,
          targets, enable_dhcp>>

\* ------------------------------------------------------------------ Camera
Camera(ip, model, manufacturer) ==
    [ip |-> ip, name |-> <<"Camera-", ip>>, model |-> model,
     manufacturer |-> manufacturer, reachable |-> TRUE]

\* ------------------------------------------------------------ text matching
\* Fragments a response text may contain.
BodyFragments ==
    {"<s:Fault>", "<tds:SetNetworkInterfacesResponse>",
     "<TDS:SETNETWORKINTERFACESRESPONSE>", "<tt:RebootNeeded>", ">Error<"}

Bodies == SUBSET BodyFragments

\* str.lower() of one fragment
LowerFragment(f) ==
    CASE f = "<s:Fault>" -> "<s:fault>"
      [] f = "<tds:SetNetworkInterfacesResponse>" -> "<tds:setnetworkinterfacesresponse>"
      [] f = "<TDS:SETNETWORKINTERFACESRESPONSE>" -> "<tds:setnetworkinterfacesresponse>"
      [] f = "<tt:RebootNeeded>" -> "<tt:rebootneeded>"
      [] f = ">Error<" -> ">error<"
      [] f = "<tt:DHCP>true" -> "<tt:dhcp>true"
      [] f = "<tt:DHCP>True" -> "<tt:dhcp>true"
      [] f = "<tt:DHCP>false" -> "<tt:dhcp>false"
      [] f = "<ns2:HwAddress>" -> "<ns2:hwaddress>"
      [] f = "<tt:NetworkInterfaces>" -> "<tt:networkinterfaces>"
      [] OTHER -> f

lower(text) == {LowerFragment(f) : f \in text}

\* needle occurs in fragment, case-sensitive
SubstringOf ==
    {<<"fault", "<s:fault>">>, <<"s:fault", "<s:fault>">>,
     <<"Fault", "<s:Fault>">>,
     <<"SetNetworkInterfacesResponse", "<tds:SetNetworkInterfacesResponse>">>,
     <<"RebootNeeded", "<tt:RebootNeeded>">>,
     <<"rebootneeded", "<tt:rebootneeded>">>,
     <<"Error", ">Error<">>, <<"error", ">error<">>,
     <<"dhcp>true", "<tt:dhcp>true">>, <<"DHCP>true", "<tt:DHCP>true">>,
     <<"DHCP>True", "<tt:DHCP>True">>,
     <<"<ns2:HwAddress>", "<ns2:HwAddress>">>,
     <<"Manufacturer>", "<tds:Manufacturer>Acme<">>,
     <<"Model>", "<tds:Model>X1<">>}

\* Python's  needle in text
In(needle, text) == \E f \in text : <<needle, f>> \in SubstringOf

\* content.split(marker)[1].split("<")[0]
split_after(marker, text) ==
    IF marker = "Manufacturer>" /\ "<tds:Manufacturer>Acme<" \in text THEN "Acme"
    ELSE IF marker = "Model>" /\ "<tds:Model>X1<" \in text THEN "X1"
    ELSE ""

\* pattern of the source matches lower-cased fragment when case is ignored
PatternMatches ==
    {<<"<[^>]*SetNetworkInterfacesResponse", "<tds:setnetworkinterfacesresponse>">>,
     <<"<tds:SetNetworkInterfacesResponse", "<tds:setnetworkinterfacesresponse>">>,
     <<"RebootNeeded", "<tt:rebootneeded>">>,
     <<"<[^>]*[Ff]ault[^>]*>", "<s:fault>">>,
     <<">[^<]*[Ee]rror[^<]*<", ">error<">>}

\* re.search(pattern, text, re.IGNORECASE)
re_search_ignorecase(pattern, text) ==
    \E f \in lower(text) : <<pattern, f>> \in PatternMatches

\* ------------------------------------------------------ what a device answers
\* requests.post: a response with a status and a text, or an exception
Http(status, text) == [kind |-> "http", status |-> status, text |-> text]
Raised(kind) == [kind |-> kind, status |-> 0, text |-> {}]
NoResponse == [kind |-> "none", status |-> 0, text |-> {}]

TransportErrors == {Raised("Timeout"), Raised("ConnectionError"), Raised("Exception")}

\* answers to the primary SetNetworkInterfaces request
PrimaryResponses ==
    TransportErrors
    \cup {Http(200, b) : b \in Bodies}
    \cup {Http(s, b) : s \in {401, 404, 500},
                       b \in {{}, {"<tds:SetNetworkInterfacesResponse>", "<tt:RebootNeeded>"},
                              {"<s:Fault>", "<tds:SetNetworkInterfacesResponse>",
                               "<tt:RebootNeeded>"}}}

\* answers to the disable-DHCP request
DhcpResponses ==
    {Raised("Timeout"), Http(200, {"<tds:SetNetworkInterfacesResponse>"}),
     Http(200, {}), Http(401, {})}

\* answers to GetNetworkInterfaces as get_current_network_config reads them:
\* the addresses and tokens its patterns find, and the rest of the text
ConfigAnswer(status, addresses, tokens, text) ==
    [kind |-> "http", status |-> status, addresses |-> addresses,
     tokens |-> tokens, text |-> text]

ConfigFailure ==
    [kind |-> "Exception", status |-> 0, addresses |-> {}, tokens |-> {}, text |-> {}]

ConfigResponses(old, new) ==
    {ConfigFailure,
     ConfigAnswer(401, {}, {}, {}),
     ConfigAnswer(200, {}, {}, {"<tt:NetworkInterfaces>"}),
     ConfigAnswer(200, {old}, {"eth0"}, {"<tt:NetworkInterfaces>", "<tt:DHCP>false"}),
     ConfigAnswer(200, {old}, {"eth0", "eth1"},
                  {"<tt:NetworkInterfaces>", "<tt:DHCP>True", "<ns2:HwAddress>"}),
     ConfigAnswer(200, {new}, {"eth0"}, {"<tt:NetworkInterfaces>", "<tt:DHCP>false"}),
     ConfigAnswer(200, {old, new}, {"eth0", "eth1"},
                  {"<tt:NetworkInterfaces>", "<tt:DHCP>true"})}

\* answers to GetNetworkInterfaces as get_network_interfaces reads them:
\* the <tt:token> elements and the token="..." attributes
InterfaceAnswer(status, elements, attributes) ==
    [status |-> status, elements |-> elements, attributes |-> attributes]

InterfaceResponses ==
    {InterfaceAnswer(0, {}, {}), InterfaceAnswer(200, {}, {}),
     InterfaceAnswer(200, {"eth1"}, {}),
     InterfaceAnswer(200, {}, {"eth0", "eth1"}),
     InterfaceAnswer(404, {"eth1"}, {})}

\* answers to GetDeviceInformation
InfoResponses ==
    {Raised("Timeout"), Http(401, {}),
     Http(200, {"<tds:Manufacturer>Acme<", "<tds:Model>X1<"})}

\* -------------------------------------------------------- Device Inspector
EmptyFacts ==
    [addresses |-> {}, interface_tokens |-> {}, dhcp_enabled |-> FALSE,
     full_response |-> {}]

get_current_network_config(r) ==
    IF r.kind = "http" /\ r.status = 200
    THEN [addresses |-> r.addresses,
          interface_tokens |-> r.tokens,
          dhcp_enabled |-> In("dhcp>true", lower(r.text))
                           \/ In("dhcp=\"true\"", lower(r.text)),
          full_response |-> r.text]
    ELSE EmptyFacts

\* get_network_interfaces that reads the tokens of any answer
get_network_interfaces_any_status(r) ==
    LET interfaces == IF r.elements # {} THEN r.elements ELSE r.attributes
    IN  IF interfaces # {} THEN interfaces ELSE {"eth0"}

\* get_network_interfaces without the fallback for an answer without tokens
get_network_interfaces_no_fallback(r) ==
    IF r.status = 200
    THEN IF r.elements # {} THEN r.elements ELSE r.attributes
    ELSE {"eth0"}

get_network_interfaces(r) ==
    IF r.status = 200
    THEN LET interfaces == IF r.elements # {} THEN r.elements ELSE r.attributes
         IN  IF interfaces # {} THEN interfaces ELSE {"eth0"}
    ELSE {"eth0"}

\* disable_dhcp_first that is content with the status
disable_dhcp_first_status_only(r) == r.kind = "http" /\ r.status = 200

disable_dhcp_first(r) ==
    r.kind = "http" /\ r.status = 200 /\ In("SetNetworkInterfacesResponse", r.text)

\* get_camera_info: <<>> for None, <<camera>> for a Camera (lines 447-489)
get_camera_info(ip, r) ==
    IF r.kind = "http" /\ r.status = 200
    THEN LET content == r.text
             manufacturer == IF In("Manufacturer>", content)
                             THEN split_after("Manufacturer>", content) ELSE ""
             model == IF In("Model>", content)
                      THEN split_after("Model>", content) ELSE ""
         IN  <<Camera(ip, model, manufacturer)>>
    ELSE <<>>

\* an Inspector query, whether the device answered it with HTTP 200, and the
\* value the query returned; NoQuery after a step that made no query
Inspected(query, status, value) ==
    [query |-> query, ok |-> status = 200, value |-> value]

NoQuery == Inspected("none", 0, <<>>)

\* dhcp_step_needed whatever the facts say
dhcp_step_always(config) == TRUE

\* line 935
dhcp_step_needed(config) == config.dhcp_enabled

\* ------------------------------------------- analysis of the primary response
\* has_fault with the text left in its own case
has_fault_case_sensitive(text) ==
    In("soap:fault", text) \/ In("s:fault", text) \/ In("fault", text)

\* line 1017
has_fault(text) ==
    LET response_lower == lower(text)
    IN  \/ In("soap:fault", response_lower)
        \/ In("s:fault", response_lower)
        \/ In("fault", response_lower)

success_patterns ==
    {"<[^>]*SetNetworkInterfacesResponse", "<ns8:SetNetworkInterfacesResponse",
     "<tds:SetNetworkInterfacesResponse", "RebootNeeded"}

failure_patterns ==
    {"<[^>]*[Ff]ault[^>]*>", ">[^<]*[Ee]rror[^<]*<", ">[^<]*[Uu]nauthorized[^<]*<",
     ">[^<]*[Ff]orbidden[^<]*<", ">[^<]*[Ii]nvalid[^<]*<"}

has_success(text) == \E pattern \in success_patterns : re_search_ignorecase(pattern, text)

has_failure(text) == \E pattern \in failure_patterns : re_search_ignorecase(pattern, text)

\* has_onvif_success with "or" for "and"
has_onvif_success_either(text) ==
    In("SetNetworkInterfacesResponse", text) \/ In("RebootNeeded", text)

has_onvif_success(text) ==
    In("SetNetworkInterfacesResponse", text) /\ In("RebootNeeded", text)

\* primary_outcome with the exact success response tested before the fault
primary_outcome_success_first(r) ==
    IF r.kind = "Timeout" THEN 1191
    ELSE IF r.kind = "ConnectionError" THEN 1194
    ELSE IF r.kind = "Exception" THEN 1198
    ELSE IF r.status = 200
         THEN IF has_onvif_success(r.text) THEN 0
              ELSE IF has_fault(r.text) THEN 1030
              ELSE IF has_failure(r.text) THEN 1063
              ELSE IF ~has_success(r.text) THEN 1068
              ELSE 0
    ELSE IF r.status = 401 THEN 1180
    ELSE IF r.status = 404 THEN 1183
    ELSE 1187

\* primary_outcome with 401 analysed like 200
primary_outcome_401_as_200(r) ==
    IF r.kind = "Timeout" THEN 1191
    ELSE IF r.kind = "ConnectionError" THEN 1194
    ELSE IF r.kind = "Exception" THEN 1198
    ELSE IF r.status \in {200, 401}
         THEN IF has_fault(r.text) THEN 1030
              ELSE IF has_failure(r.text) /\ ~has_onvif_success(r.text) THEN 1063
              ELSE IF ~has_success(r.text) /\ ~has_onvif_success(r.text) THEN 1068
              ELSE 0
    ELSE IF r.status = 404 THEN 1183
    ELSE 1187

\* The return statement the primary response leads to, 0 when the call goes
\* on to the settle wait (lines 1012-1081 and 1178-1198).
primary_outcome(r) ==
    IF r.kind = "Timeout" THEN 1191
    ELSE IF r.kind = "ConnectionError" THEN 1194
    ELSE IF r.kind = "Exception" THEN 1198
    ELSE IF r.status = 200
         THEN IF has_fault(r.text) THEN 1030
              ELSE IF has_failure(r.text) /\ ~has_onvif_success(r.text) THEN 1063
              ELSE IF ~has_success(r.text) /\ ~has_onvif_success(r.text) THEN 1068
              ELSE 0
    ELSE IF r.status = 401 THEN 1180
    ELSE IF r.status = 404 THEN 1183
    ELSE 1187

\* ------------------------------------------------------------ verification
\* lines 1091-1096
facts_list(config, ip) == config.addresses # {} /\ ip \in config.addresses

\* verify_gate that looks at the facts only
verify_gate_changed_only(changed, still) == changed

\* verify_gate with "and" for "or"
verify_gate_both(changed, still) == changed /\ ~still

\* line 1107
verify_gate(changed, still) == changed \/ ~still

\* alternative_gate that counts the identifier already used
alternative_gate_any_token(still, tokens) == still /\ Cardinality(tokens) >= 1

\* line 1122
alternative_gate(still, tokens) == still /\ Cardinality(tokens) > 1

\* attempt_succeeds without the identity query
attempt_succeeds_port_only(port_open, identity) == port_open

\* lines 800-805: one attempt of verify_ip_change
attempt_succeeds(port_open, identity) == port_open /\ identity

\* verify_ip_change(new_ip, timeout=10) and verify_ip_change(new_ip, timeout=8)
FirstVerifyTimeout == 10
AltVerifyTimeout == 8

\* verify_timeout of the default of verify_ip_change, timeout=30
verify_timeout_default(after_alternative) == 30

verify_timeout(after_alternative) ==
    IF after_alternative THEN AltVerifyTimeout ELSE FirstVerifyTimeout

\* line 1138: the name alt_token is bound nowhere in the module
alt_token_defined == FALSE

\* lines 1129-1133
hw_address(config) ==
    IF config.full_response # {} /\ In("<ns2:HwAddress>", config.full_response)
    THEN "HwAddress" ELSE ""

\* lines 350-363
alternative_accepted(r) ==
    r.kind = "http" /\ r.status = 200
    /\ In("SetNetworkInterfacesResponse", r.text) /\ In("RebootNeeded", r.text)

\* lines 1156-1174
final_diagnosis(still, changed) ==
    IF still /\ ~changed THEN "firmware does not support IP changes"
    ELSE IF still /\ changed THEN "config updated but network change failed"
    ELSE "partial success"

\* update_camera that looks for the camera at new instead of old
update_camera_wrong_key(cams, old, new) ==
    [i \in 1..Len(cams) |->
        IF cams[i].ip = new THEN [cams[i] EXCEPT !.ip = new] ELSE cams[i]]

\* update_camera that also renames the camera after its new address
update_camera_renaming(cams, old, new) ==
    [i \in 1..Len(cams) |->
        IF cams[i].ip = old
        THEN [cams[i] EXCEPT !.ip = new, !.name = <<"Camera-", new>>]
        ELSE cams[i]]

\* lines 1110-1113: the first camera at old gets new
RECURSIVE update_camera(_, _, _)
update_camera(cams, old, new) ==
    IF cams = <<>> THEN <<>>
    ELSE IF Head(cams).ip = old
         THEN <<[Head(cams) EXCEPT !.ip = new]>> \o Tail(cams)
         ELSE <<Head(cams)>> \o update_camera(Tail(cams), old, new)

\* ------------------------------------------------------------------- states
\* what scan_network_for_cameras can leave in the Registry: one Camera per
\* host that answered, each host once, in the order the probes completed
ScanResults ==
    {[i \in 1..Len(s) |-> Camera(s[i], "", "")] :
        s \in {q \in UNION {[1..n -> IPs] : n \in 0..NumIPs} :
                  \A i, j \in 1..Len(q) : i # j => q[i] # q[j]}}

NoProbe == [port |-> FALSE, identity |-> FALSE]

NoNetwork == [network_address |-> 0, prefixlen |-> -1]

\* change_camera_ip has asked nothing yet
NoRequest == [camera |-> 0, new_ip |-> "", gateway |-> "", prefix_length |-> 0,
              override |-> "not_asked"]

\* the session at the main menu once a scan has filled the Registry
Session ==
    /\ cameras \in ScanResults
    /\ pc = "menu"
    /\ old_ip = 0
    /\ new_ip = 0
    /\ current_config = EmptyFacts
    /\ all_tokens = {}
    /\ interface_token = ""
    /\ response = NoResponse
    /\ new_config = EmptyFacts
    /\ config_changed = FALSE
    /\ still_at_old = FALSE
    /\ alt_sent = FALSE
    /\ attempt = 0
    /\ probe = NoProbe
    /\ result = "pending"
    /\ ret_line = 0
    /\ exc = "none"
    /\ diag = "none"
    /\ net = <<>>
    /\ dhcp_response = NoResponse
    /\ inspected = NoQuery
    /\ accepting = [a \in {} |-> {}]
    /\ pending = {}
    /\ open_ips = <<>>
    /\ found = <<>>
    /\ queries = <<>>
    /\ max_threads = MaxThreads
    /\ running = {}
    /\ probed = [a \in {} |-> 0]
    /\ previous = <<>>
    /\ choice = ""
    /\ operation = "none"
    /\ request = NoRequest
    /\ interrupt = "none"
    /\ targets = {}
    /\ enable_dhcp = FALSE

Init == Session /\ credentials = "admin" /\ network_obj = NoNetwork

facts == <<current_config, all_tokens, interface_token>>
verification == <<new_config, config_changed, still_at_old, alt_sent, attempt, probe>>
outcome == <<result, ret_line, exc, diag>>
scan == <<credentials, accepting, network_obj, pending, open_ips, found, queries,
          max_threads, running, probed, previous>>
call == <<old_ip, new_ip, facts, response, verification, outcome, net, dhcp_response>>
session == <<choice, operation, request, interrupt, targets, enable_dhcp>>

\* execute_ip_change returns value by the return statement at line
Return(value, line, exception, diagnosis) ==
    /\ pc' = "returned"
    /\ result' = value
    /\ ret_line' = line
    /\ exc' = exception
    /\ diag' = diagnosis

\* the address in the URL of each mutating request of execute_ip_change(old_ip,
\* new_ip, ...): line 937 with 367, line 899, and line 1138 with 285
disable_dhcp_url(old, new) == old

primary_url_new_address(old, new) == new

primary_url(old, new) == old

alternative_url(old, new) == old

\* ------------------------------------------------------------------ actions
\* run, choice '3': select_camera, change_camera_ip and its prompts, up to the
\* call execute_ip_change(camera.ip, new_ip, gateway, prefix_length)
change_camera_ip ==
    /\ pc = "menu"
    /\ \E idx \in 1..Len(cameras) :
         \E ip \in IPs \ {cameras[idx].ip} :
            /\ old_ip' = cameras[idx].ip
            /\ new_ip' = ip
    /\ pc' = "get_config"
    /\ UNCHANGED <<cameras, facts, response, verification, outcome, net,
                   dhcp_response, scan, session>>
    /\ inspected' = NoQuery

\* Step 0, line 904
GetCurrentConfig ==
    /\ pc = "get_config"
    /\ \E r \in ConfigResponses(old_ip, new_ip) :
         /\ current_config' = get_current_network_config(r)
         /\ inspected' = Inspected("get_current_network_config", r.status,
                                   get_current_network_config(r))
    /\ net' = Append(net, "get_config")
    /\ pc' = "get_interfaces"
    /\ UNCHANGED <<cameras, old_ip, new_ip, all_tokens, interface_token, response,
                   verification, outcome, dhcp_response, scan, session>>

\* Step 1, lines 923-935
GetInterfaces ==
    /\ pc = "get_interfaces"
    /\ \E r \in InterfaceResponses :
         LET interfaces == get_network_interfaces(r)
             union == interfaces \cup current_config.interface_tokens
             tokens == IF union = {} THEN {"eth0"} ELSE union
         IN  /\ all_tokens' = tokens
             /\ \E t \in tokens : interface_token' = t
             /\ inspected' = Inspected("get_network_interfaces", r.status, interfaces)
    /\ net' = Append(net, "get_interfaces")
    /\ pc' = IF dhcp_step_needed(current_config) THEN "disable_dhcp" ELSE "primary"
    /\ UNCHANGED <<cameras, old_ip, new_ip, current_config, response, verification,
                   outcome, dhcp_response, scan, session>>

\* Step 1.5, lines 935-941
DisableDhcpFirst ==
    /\ pc = "disable_dhcp"
    /\ \E r \in DhcpResponses :
         /\ dhcp_response' = r
         /\ net' = net \o <<"disable_dhcp">>
                        \o (IF disable_dhcp_first(r) THEN <<"sleep2">> ELSE <<>>)
    /\ targets' = targets \cup {disable_dhcp_url(old_ip, new_ip)}
    /\ pc' = "primary"
    /\ UNCHANGED <<cameras, old_ip, new_ip, facts, response, verification, outcome,
                   scan, choice, operation, request, interrupt,
                   enable_dhcp>>
    /\ inspected' = NoQuery

\* lines 995-1081 and 1178-1198: the primary request and what its answer means
SendPrimary ==
    /\ pc = "primary"
    /\ \E r \in PrimaryResponses :
         /\ response' = r
         /\ LET line == primary_outcome(r)
            IN  IF line = 0
                THEN pc' = "settle" /\ UNCHANGED outcome
                ELSE Return("False", line,
                            IF r.kind = "http" THEN "none" ELSE r.kind, "none")
    /\ net' = Append(net, "primary")
    /\ targets' = targets \cup {primary_url(old_ip, new_ip)}
    /\ UNCHANGED <<cameras, old_ip, new_ip, facts, verification, dhcp_response,
                   scan, choice, operation, request, interrupt,
                   enable_dhcp>>
    /\ inspected' = NoQuery

\* Settle without the sleep
Settle_without_sleep ==
    /\ pc = "settle"
    /\ pc' = "refetch"
    /\ UNCHANGED <<cameras, old_ip, new_ip, facts, response, verification, outcome,
                   net, dhcp_response, scan, session>>
    /\ inspected' = NoQuery

\* Settle that goes on to the probe of the old address
Settle_skipping_refetch ==
    /\ pc = "settle"
    /\ net' = Append(net, "sleep5")
    /\ pc' = "probe_old"
    /\ UNCHANGED <<cameras, old_ip, new_ip, facts, response, verification, outcome,
                   dhcp_response, scan, session>>
    /\ inspected' = NoQuery

\* lines 1085 and 1143: time.sleep(5)
Settle ==
    /\ pc = "settle"
    /\ net' = Append(net, "sleep5")
    /\ pc' = "refetch"
    /\ UNCHANGED <<cameras, old_ip, new_ip, facts, response, verification, outcome,
                   dhcp_response, scan, session>>
    /\ inspected' = NoQuery

\* lines 1089-1100, and 1144-1145 after the alternate request
Refetch ==
    /\ pc = "refetch"
    /\ \E r \in ConfigResponses(old_ip, new_ip) :
         LET config == get_current_network_config(r)
         IN  /\ new_config' = config
             /\ inspected' = Inspected("get_current_network_config", r.status, config)
             /\ IF ~alt_sent
                THEN /\ config_changed' = facts_list(config, new_ip)
                     /\ pc' = "probe_old"
                     /\ UNCHANGED outcome
                ELSE /\ UNCHANGED config_changed
                     /\ IF facts_list(config, new_ip)
                        THEN pc' = "verify" /\ UNCHANGED outcome
                        ELSE Return("False", 1176, "none",
                                    final_diagnosis(still_at_old, config_changed))
    /\ net' = Append(net, "get_config")
    /\ UNCHANGED <<cameras, old_ip, new_ip, facts, response, still_at_old, alt_sent,
                   attempt, probe, dhcp_response, scan, session>>

\* lines 1103-1107, 1118-1122 and 1156-1176
ProbeOld ==
    /\ pc = "probe_old"
    /\ \E still \in BOOLEAN :
         /\ still_at_old' = still
         /\ IF verify_gate(config_changed, still)
            THEN pc' = "verify" /\ UNCHANGED outcome
            ELSE IF alternative_gate(still, all_tokens)
                 THEN pc' = "alternative" /\ UNCHANGED outcome
                 ELSE Return("False", 1176, "none",
                             final_diagnosis(still, config_changed))
    /\ net' = Append(net, "probe_old")
    /\ UNCHANGED <<cameras, old_ip, new_ip, facts, response, new_config,
                   config_changed, alt_sent, attempt, probe, dhcp_response,
                   scan, session>>
    /\ inspected' = NoQuery

\* one pass of the loop of verify_ip_change (lines 797-812) and, when the loop
\* ends, what execute_ip_change does with its value (1108-1117, 1147-1154)
VerifyAttempt ==
    /\ pc = "verify"
    /\ \E port_open \in BOOLEAN, r \in InfoResponses :
         LET test_camera == get_camera_info(new_ip, r)
             identity == port_open /\ test_camera # <<>>
         IN
         /\ port_open \/ r = Raised("Timeout")
         /\ inspected' = IF port_open
                          THEN Inspected("get_camera_info", r.status, test_camera)
                          ELSE NoQuery
         /\ probe' = [port |-> port_open, identity |-> identity]
         /\ attempt' = attempt + 1
         /\ IF attempt_succeeds(port_open, identity)
            THEN /\ cameras' = update_camera(cameras, old_ip, new_ip)
                 /\ Return("True", IF alt_sent THEN 1154 ELSE 1117, "none", "none")
            ELSE /\ UNCHANGED cameras
                 /\ IF attempt + 1 < verify_timeout(alt_sent)
                    THEN pc' = "verify" /\ UNCHANGED outcome
                    ELSE IF alt_sent
                         THEN Return("False", 1176, "none",
                                     final_diagnosis(still_at_old, config_changed))
                         ELSE Return("None", 0, "none", "none")
    /\ net' = Append(net, "poll_new")
    /\ UNCHANGED <<old_ip, new_ip, facts, response, new_config, config_changed,
                   still_at_old, alt_sent, dhcp_response, scan, session>>

\* lines 1123-1141: the alternate request
TryAlternative ==
    /\ pc = "alternative"
    /\ IF ~alt_token_defined
       THEN /\ Return("False", 1198, "NameError", "none")
            /\ UNCHANGED <<alt_sent, net, targets>>
       ELSE \E r \in PrimaryResponses :
              /\ net' = Append(net, "alternative")
              /\ targets' = targets \cup {alternative_url(old_ip, new_ip)}
              /\ IF alternative_accepted(r)
                 THEN alt_sent' = TRUE /\ pc' = "settle" /\ UNCHANGED outcome
                 ELSE /\ UNCHANGED alt_sent
                      /\ Return("False", 1176, "none",
                                final_diagnosis(still_at_old, config_changed))
    /\ UNCHANGED <<cameras, old_ip, new_ip, facts, response, new_config,
                   config_changed, still_at_old, attempt, probe, dhcp_response,
                   scan, choice, operation, request, interrupt,
                   enable_dhcp>>
    /\ inspected' = NoQuery

Next ==
    \/ change_camera_ip
    \/ GetCurrentConfig
    \/ GetInterfaces
    \/ DisableDhcpFirst
    \/ SendPrimary
    \/ Settle
    \/ Refetch
    \/ ProbeOld
    \/ VerifyAttempt
    \/ TryAlternative

Spec == Init /\ [][Next]_vars

\* a Registry with the one camera whose address is to be changed
InitOneCamera == Init /\ Len(cameras) = 1

\* a call in which every network call and every sleep returns
FairSpec == InitOneCamera /\ [][Next]_vars /\ WF_vars(Next)

\* one call of execute_ip_change for a Registry of one camera: the call reads
\* the Registry only to take the old address from it, so its requests, its
\* answers and its verification are those of Spec
CallSpec == InitOneCamera /\ [][Next]_vars

\* ------------------------------------------------------- KeyboardInterrupt
\* lines 1085, 1143 and 811: a KeyboardInterrupt raised in time.sleep is no
\* Exception, so neither line 813 nor lines 1189-1195 catch it; it leaves
\* execute_ip_change and change_camera_ip and reaches line 1288 of run, which
\* prints the farewell and ends the program
InterruptSleep ==
    /\ interrupt = "none"
    /\ \/ pc = "settle" /\ interrupt' = "settle_wait"
       \/ pc = "verify" /\ attempt >= 1 /\ interrupt' = "polling_wait"
    /\ pc' = "exited"
    /\ inspected' = NoQuery
    /\ UNCHANGED <<cameras, call, scan, choice, operation, request, targets, enable_dhcp>>

\* lines 799-811 with a KeyboardInterrupt raised inside check_onvif_port
\* (caught at line 444, which returns False) or inside get_camera_info
\* (caught at line 486, which returns None): the attempt counts as failed and
\* the loop of verify_ip_change goes on
InterruptProbe ==
    /\ interrupt = "none"
    /\ pc = "verify"
    /\ \E where \in {"port_probe", "identity_query"} :
         /\ interrupt' = where
         /\ probe' = [port |-> where = "identity_query", identity |-> FALSE]
    /\ attempt' = attempt + 1
    /\ IF attempt + 1 < verify_timeout(alt_sent)
       THEN pc' = "verify" /\ UNCHANGED outcome
       ELSE IF alt_sent
            THEN Return("False", 1176, "none",
                        final_diagnosis(still_at_old, config_changed))
            ELSE Return("None", 0, "none", "none")
    /\ net' = Append(net, "poll_new")
    /\ inspected' = NoQuery
    /\ UNCHANGED <<cameras, old_ip, new_ip, facts, response, new_config,
                   config_changed, still_at_old, alt_sent, dhcp_response, scan,
                   choice, operation, request, targets, enable_dhcp>>

NextInterrupt ==
    \/ Next
    \/ InterruptSleep
    \/ InterruptProbe

\* a call during which the user may press Ctrl-C once
InterruptSpec == InitOneCamera /\ [][NextInterrupt]_vars

\* ------------------------------------------------------------------ the scan
\* addresses of AddrBits bits and the prefix lengths of their networks
Addresses == 0..(2^AddrBits - 1)
PrefixLengths == 0..AddrBits

\* config.get('scan_ports', [80, 8080])
scan_ports == <<80, 8080>>

\* ipaddress.IPv4Network(network, strict=False): the host bits are cleared
IPv4Network(address, prefixlen) ==
    [network_address |-> address - (address % 2^(AddrBits - prefixlen)),
     prefixlen |-> prefixlen]

broadcast_address(n) == n.network_address + 2^(AddrBits - n.prefixlen) - 1

\* IPv4Network.hosts(): every address of the two longest prefix lengths,
\* otherwise the addresses between the network and the broadcast address
hosts(n) ==
    IF n.prefixlen >= AddrBits - 1
    THEN n.network_address..broadcast_address(n)
    ELSE (n.network_address + 1)..(broadcast_address(n) - 1)

\* what an address may accept connections on
AcceptSets == {{}, {80}, {8080}, {80, 8080}, {554}}

\* the worlds a scan may run in: at most MaxOpen addresses accept anything
Worlds ==
    {w \in [Addresses -> AcceptSets] :
        Cardinality({a \in Addresses : w[a] # {}}) <= MaxOpen}

\* check_onvif_port(ip, port, timeout): connect_ex returned 0
check_onvif_port(world, ip, port) == port \in world[ip]

\* check_ip_ports without the test of the network and broadcast address
check_ip_ports_no_exclusion(world, n, ip) ==
    \E i \in DOMAIN scan_ports : check_onvif_port(world, ip, scan_ports[i])

\* check_ip_ports that asks every configured port to accept
check_ip_ports_all_ports(world, n, ip) ==
    /\ ip # n.network_address /\ ip # broadcast_address(n)
    /\ \A i \in DOMAIN scan_ports : check_onvif_port(world, ip, scan_ports[i])

\* lines 624-632: TRUE when check_ip_ports returns ip_str, FALSE for None
check_ip_ports(world, n, ip) ==
    IF ip = n.network_address \/ ip = broadcast_address(n)
    THEN FALSE
    ELSE \E i \in DOMAIN scan_ports : check_onvif_port(world, ip, scan_ports[i])

\* record_camera that drops a candidate without identity
record_camera_drop_unknown(list, ip, camera) ==
    IF camera = <<>> THEN list ELSE list \o camera

\* lines 664-668: the camera found, or Camera(ip), is appended
record_camera(list, ip, camera) ==
    IF camera = <<>> THEN Append(list, Camera(ip, "", "")) ELSE list \o camera

\* line 661
second_query_needed(camera, username) == camera = <<>> /\ username # ""

\* the object after construction, whatever scan_threads the configuration
\* file holds
Constructed ==
    /\ cameras = <<>>
    /\ pc = "menu"
    /\ old_ip = 0
    /\ new_ip = 0
    /\ current_config = EmptyFacts
    /\ all_tokens = {}
    /\ interface_token = ""
    /\ response = NoResponse
    /\ new_config = EmptyFacts
    /\ config_changed = FALSE
    /\ still_at_old = FALSE
    /\ alt_sent = FALSE
    /\ attempt = 0
    /\ probe = NoProbe
    /\ result = "pending"
    /\ ret_line = 0
    /\ exc = "none"
    /\ diag = "none"
    /\ net = <<>>
    /\ dhcp_response = NoResponse
    /\ inspected = NoQuery
    /\ credentials \in {"", "admin"}
    /\ accepting \in Worlds
    /\ network_obj = NoNetwork
    /\ pending = {}
    /\ open_ips = <<>>
    /\ found = <<>>
    /\ queries = <<>>
    /\ running = {}
    /\ probed = [a \in Addresses |-> 0]
    /\ previous = <<>>
    /\ choice = ""
    /\ operation = "none"
    /\ request = NoRequest
    /\ interrupt = "none"
    /\ targets = {}
    /\ enable_dhcp = FALSE

InitScan == Constructed /\ max_threads = MaxThreads

\* the addresses of the cameras of a list
AddressesOf(list) == {list[i].ip : i \in DOMAIN list}

\* lines 611-641: the range is parsed and one future per host is submitted
SubmitFutures ==
    /\ pending' = hosts(network_obj')
    /\ running' = {}
    /\ probed' = [a \in Addresses |-> 0]
    /\ open_ips' = <<>>
    /\ found' = <<>>
    /\ queries' = <<>>
    /\ pc' = "phase1"
    /\ inspected' = NoQuery

\* run, choice '1' or '2' (lines 1254-1260), no range being set: the range
\* is asked for, then the scan starts
scan_network_for_cameras ==
    /\ pc = "menu"
    /\ \E address \in Addresses, prefixlen \in PrefixLengths :
         network_obj' = IPv4Network(address, prefixlen)
    /\ previous' = <<>>
    /\ SubmitFutures
    /\ UNCHANGED <<cameras, call, session, credentials, accepting, max_threads>>

\* a scan that asks for the range again
Rescan_asking_range ==
    /\ pc = "scanned"
    /\ \E address \in Addresses, prefixlen \in PrefixLengths :
         network_obj' = IPv4Network(address, prefixlen)
    /\ UNCHANGED credentials
    /\ previous' = <<AddressesOf(cameras)>>
    /\ SubmitFutures
    /\ UNCHANGED <<cameras, call, session, accepting, max_threads>>

\* run, choice '1' or '2' again (lines 1254-1260): the range set is scanned
\* once more, the credentials being asked for when the user name is empty
Rescan ==
    /\ pc = "scanned"
    /\ UNCHANGED network_obj
    /\ IF credentials = ""
       THEN credentials' \in {"", "admin"}
       ELSE UNCHANGED credentials
    /\ previous' = <<AddressesOf(cameras)>>
    /\ SubmitFutures
    /\ UNCHANGED <<cameras, call, session, accepting, max_threads>>

\* lines 629-630: the passes of check_ip_ports over the ports of ip
port_passes(n, ip) ==
    IF ip = n.network_address \/ ip = broadcast_address(n) THEN 0 ELSE 1

\* a completed future that wrote its result to the Registry
FutureCompletes_into_registry(ip) ==
    /\ pending' = pending \ {ip}
    /\ running' = running \ {ip}
    /\ open_ips' = open_ips
    /\ cameras' = IF check_ip_ports(accepting, network_obj, ip)
                  THEN Append(cameras, Camera(ip, "", "")) ELSE cameras
    /\ pc' = IF pending \ {ip} # {} THEN "phase1" ELSE "scanned"

\* a completed future after which Phase 2 starts as soon as an address is open
FutureCompletes_early_phase2(ip) ==
    LET open == IF check_ip_ports(accepting, network_obj, ip)
                THEN Append(open_ips, ip) ELSE open_ips
    IN  /\ pending' = pending \ {ip}
        /\ running' = running \ {ip}
        /\ open_ips' = open
        /\ IF open # <<>>
           THEN pc' = "phase2" /\ UNCHANGED cameras
           ELSE IF pending \ {ip} # {}
                THEN pc' = "phase1" /\ UNCHANGED cameras
                ELSE pc' = "scanned" /\ cameras' = found

\* lines 640-651: one future completes and its result is kept; after the last
\* one Phase 2 starts, or the empty list is returned (672)
FutureCompletes(ip) ==
    LET open == IF check_ip_ports(accepting, network_obj, ip)
                THEN Append(open_ips, ip) ELSE open_ips
    IN  /\ pending' = pending \ {ip}
        /\ running' = running \ {ip}
        /\ open_ips' = open
        /\ IF pending \ {ip} # {}
           THEN pc' = "phase1" /\ UNCHANGED cameras
           ELSE IF open # <<>>
                THEN pc' = "phase2" /\ UNCHANGED cameras
                ELSE pc' = "scanned" /\ cameras' = found

\* lines 624-647: a future runs from its start to its end, the futures in
\* any order
CheckIpPorts ==
    /\ pc = "phase1"
    /\ \E ip \in pending \ running :
         /\ probed' = [probed EXCEPT ![ip] = @ + port_passes(network_obj, ip)]
         /\ FutureCompletes(ip)
    /\ inspected' = NoQuery
    /\ UNCHANGED <<call, session, credentials, accepting, network_obj, found, queries,
                   max_threads, previous>>

\* the list grew by one camera: the loop of Phase 2 goes on, or the list is
\* returned and assigned to self.cameras (lines 672 and 1260)
NextCandidate(list) ==
    /\ found' = list
    /\ IF Len(list) < Len(open_ips)
       THEN pc' = "phase2" /\ UNCHANGED cameras
       ELSE pc' = "scanned" /\ cameras' = list

\* lines 655-668: the query without credentials for the next candidate
GetInfoWithoutAuth ==
    /\ pc = "phase2"
    /\ LET ip == open_ips[Len(found) + 1]
       IN  \E r \in InfoResponses :
             LET camera == get_camera_info(ip, r)
             IN  /\ inspected' = Inspected("get_camera_info", r.status, camera)
                 /\ queries' = Append(queries, [ip |-> ip, username |-> "",
                                            answered |-> camera # <<>>])
                 /\ IF second_query_needed(camera, credentials)
                    THEN pc' = "phase2_auth" /\ UNCHANGED <<cameras, found>>
                    ELSE NextCandidate(record_camera(found, ip, camera))
    /\ UNCHANGED <<call, session, credentials, accepting, network_obj, pending, open_ips,
                   max_threads, running, probed, previous>>

\* lines 661-668: the query with the stored credentials
GetInfoWithCredentials ==
    /\ pc = "phase2_auth"
    /\ LET ip == open_ips[Len(found) + 1]
       IN  \E r \in InfoResponses :
             LET camera == get_camera_info(ip, r)
             IN  /\ inspected' = Inspected("get_camera_info", r.status, camera)
                 /\ queries' = Append(queries, [ip |-> ip, username |-> credentials,
                                            answered |-> camera # <<>>])
                 /\ NextCandidate(record_camera(found, ip, camera))
    /\ UNCHANGED <<call, session, credentials, accepting, network_obj, pending, open_ips,
                   max_threads, running, probed, previous>>

NextScan ==
    \/ scan_network_for_cameras
    \/ CheckIpPorts
    \/ GetInfoWithoutAuth
    \/ GetInfoWithCredentials

ScanSpec == InitScan /\ [][NextScan]_vars

\* a free worker thread exists (line 635)
worker_free_always(workers, threads) == TRUE

worker_free(workers, threads) == Cardinality(workers) < threads

\* the work queue of the executor: the futures no worker has taken yet, in
\* the order of hosts() (line 636-637)
queued == pending \ running

\* lines 635-637: a free worker takes the next future of the queue
WorkerStarts ==
    /\ pc = "phase1"
    /\ queued # {}
    /\ worker_free(running, max_threads)
    /\ LET ip == CHOOSE a \in queued : \A b \in queued : a <= b
       IN  /\ running' = running \cup {ip}
           /\ probed' = [probed EXCEPT ![ip] = @ + port_passes(network_obj, ip)]
    /\ inspected' = NoQuery
    /\ UNCHANGED <<cameras, pc, call, session, credentials, accepting, network_obj,
                   pending, open_ips, found, queries, max_threads, previous>>

\* lines 640-647: a worker finishes its future, the workers in any order
WorkerCompletes ==
    /\ pc = "phase1"
    /\ \E ip \in running : FutureCompletes(ip)
    /\ inspected' = NoQuery
    /\ UNCHANGED <<call, session, credentials, accepting, network_obj, found, queries,
                   max_threads, probed, previous>>

NextPool ==
    \/ scan_network_for_cameras
    \/ WorkerStarts
    \/ WorkerCompletes
    \/ GetInfoWithoutAuth
    \/ GetInfoWithCredentials

\* the object after construction, with any number of worker threads
InitPool == Constructed /\ max_threads \in 1..MaxThreads

PoolSpec == InitPool /\ [][NextPool]_vars

NextRescan ==
    \/ NextPool
    \/ Rescan

\* the object after construction, with one worker thread or two
InitRescan == Constructed /\ max_threads \in {1, 2}

\* scans of the same range one after another
RescanSpec == InitRescan /\ [][NextRescan]_vars

\* --------------------------------------------------------------- main menu
\* the dotted form of the addresses typed in the dialogue, with their value
AddressTexts ==
    {<<"0.0.0.1", 1>>, <<"0.0.0.2", 2>>, <<"0.0.0.3", 3>>, <<"0.0.0.5", 5>>,
     <<"0.0.0.6", 6>>, <<"1.0.0.1", 2^24 + 1>>, <<"1.0.0.2", 2^24 + 2>>,
     <<"1.0.0.3", 2^24 + 3>>, <<"1.0.0.9", 2^24 + 9>>}

\* ipaddress.IPv4Address(text) as an integer; -1 for AddressValueError, which
\* the empty text, a text that is no dotted quad and an octet with a leading
\* zero raise
IPv4Address(text) ==
    IF \E p \in AddressTexts : p[1] = text
    THEN (CHOOSE p \in AddressTexts : p[1] = text)[2]
    ELSE -1

\* str(address)
str(address) == (CHOOSE p \in AddressTexts : p[2] = address)[1]

\* lines 408-414
validate_ip(ip) == IPv4Address(ip) # -1

\* the decimal texts typed in the dialogue, with their value
IntTexts ==
    {<<"0", 0>>, <<"1", 1>>, <<"2", 2>>, <<"3", 3>>, <<"4", 4>>, <<"7", 7>>,
     <<"8", 8>>, <<"24", 24>>, <<"30", 30>>, <<"31", 31>>}

\* int(text); -1 for ValueError
int(text) ==
    IF \E p \in IntTexts : p[1] = text
    THEN (CHOOSE p \in IntTexts : p[1] = text)[2]
    ELSE -1

\* text.strip().lower() in ['y', 'yes'] (lines 772-773 and 785-786)
affirmative(text) == text \in {"y", "Y", "yes", "YES", " y "}

\* the ranges typed at get_network_range, with the network they denote
NetworkTexts ==
    {<<"0.0.0.0/24", [network_address |-> 0, prefixlen |-> 24]>>,
     <<"1.0.0.7/24", [network_address |-> 2^24, prefixlen |-> 24]>>}

\* lines 78-84
validate_network(network) == \E p \in NetworkTexts : p[1] = network

\* lines 711-718: the label printed for a choice
menu_label(c) ==
    CASE c = "1" -> "Scan for cameras"
      [] c = "2" -> "Refresh camera list"
      [] c = "3" -> "Change camera IP"
      [] c = "4" -> "Set/Remove DHCP"
      [] c = "5" -> "Show camera details"
      [] c = "6" -> "Set credentials"
      [] c = "7" -> "Change network"
      [] c = "0" -> "Exit"
      [] OTHER -> ""

\* lines 1251-1284: the branch of run() a choice takes
dispatch(c) ==
    CASE c = "0" -> "exit"
      [] c \in {"1", "2"} -> "scan_network_for_cameras"
      [] c = "3" -> "change_camera_ip"
      [] c = "4" -> "show_camera_details"
      [] c = "5" -> "get_credentials"
      [] c = "6" -> "get_network_range"
      [] OTHER -> "invalid"

Choices == {"0", "1", "2", "3", "4", "5", "6", "7", "x"}

\* what the scanner holds, which no step of the menu dialogue touches
scanner == <<accepting, pending, open_ips, found, queries, max_threads,
             running, probed, previous>>

\* lines 1262-1267: choice 3 is refused
change_refused_never(cams, username) == FALSE

change_refused(cams, username) == cams = <<>> \/ username = ""

\* lines 1255-1260: what a scan asks for before it starts
before_scan(network, username) ==
    IF network = NoNetwork THEN "scan_get_network_range"
    ELSE IF username = "" THEN "scan_get_credentials"
    ELSE "scan"

\* lines 1248-1284: the choice is read and its branch entered; choices 1 and
\* 2 first ask for what is not set; choices 3 and 4 go back to the menu when
\* the Registry is empty, choice 3 also when no user name is stored
MainMenu ==
    /\ pc = "menu"
    /\ \E c \in Choices :
         /\ choice' = c
         /\ operation' = dispatch(c)
         /\ pc' = CASE dispatch(c) = "exit" -> "exited"
                    [] dispatch(c) = "scan_network_for_cameras" ->
                         before_scan(network_obj, credentials)
                    [] dispatch(c) = "change_camera_ip" ->
                         IF change_refused(cameras, credentials)
                         THEN "menu" ELSE "select_camera"
                    [] dispatch(c) = "show_camera_details" ->
                         IF cameras = <<>> THEN "menu" ELSE "select_camera"
                    [] dispatch(c) = "get_credentials" -> "get_credentials"
                    [] dispatch(c) = "get_network_range" -> "get_network_range"
                    [] OTHER -> "menu"
    /\ request' = NoRequest
    /\ inspected' = NoQuery
    /\ UNCHANGED <<cameras, call, credentials, network_obj, scanner, interrupt,
                   targets, enable_dhcp>>

\* lines 1220-1239, then line 1270 or 1277
select_camera ==
    /\ pc = "select_camera"
    /\ \E camera_id \in {"0", "1", "2", "3", "4", "x"} :
         LET idx == int(camera_id) - 1
         IN  IF camera_id # "0" /\ 0 <= idx /\ idx < Len(cameras)
             THEN /\ request' = [NoRequest EXCEPT !.camera = cameras[idx + 1].ip]
                  /\ pc' = IF operation = "change_camera_ip"
                           THEN "ask_new_ip" ELSE "show_camera_details"
             ELSE /\ request' = NoRequest
                  /\ pc' = "menu"
    /\ inspected' = NoQuery
    /\ UNCHANGED <<cameras, call, credentials, network_obj, scanner, choice,
                   operation, interrupt, targets, enable_dhcp>>

\* lines 1200-1218
show_camera_details ==
    /\ pc = "show_camera_details"
    /\ IF credentials # ""
       THEN \E r \in InfoResponses :
              inspected' = Inspected("get_camera_info", r.status,
                                     get_camera_info(request.camera, r))
       ELSE inspected' = NoQuery
    /\ pc' = "menu"
    /\ UNCHANGED <<cameras, call, credentials, network_obj, scanner, session>>

\* lines 674-687, the default user name being 'admin'; called for choice 5,
\* and at line 1258 before a scan
get_credentials ==
    /\ pc \in {"get_credentials", "scan_get_credentials"}
    /\ \E username \in {"", "root"} :
         credentials' = IF username = "" THEN "admin" ELSE username
    /\ pc' = IF pc = "get_credentials" THEN "menu" ELSE "scan"
    /\ inspected' = NoQuery
    /\ UNCHANGED <<cameras, call, network_obj, scanner, session>>

\* lines 416-434: the prompt is repeated until the range is valid, the empty
\* answer standing for the range that is set, if one is; called for choice 6,
\* after which the Registry is emptied (1281-1282), and at line 1256 before a
\* scan
get_network_range ==
    /\ pc \in {"get_network_range", "scan_get_network_range"}
    /\ \E text \in {"", "abc", "0.0.0.0/24", "1.0.0.7/24"} :
         LET valid == IF text = "" THEN network_obj # NoNetwork
                      ELSE validate_network(text)
             network == IF text = "" THEN network_obj
                        ELSE (CHOOSE p \in NetworkTexts : p[1] = text)[2]
         IN  IF valid
             THEN /\ network_obj' = network
                  /\ IF pc = "get_network_range"
                     THEN pc' = "menu" /\ cameras' = <<>>
                     ELSE /\ pc' = before_scan(network, credentials)
                          /\ UNCHANGED cameras
             ELSE UNCHANGED <<pc, cameras, network_obj>>
    /\ inspected' = NoQuery
    /\ UNCHANGED <<call, credentials, scanner, session>>

\* lines 730-744
EnterNewIp ==
    /\ pc = "ask_new_ip"
    /\ \E text \in {"", "abc", "0.0.0.01", "0.0.0.1", "0.0.0.2", "0.0.0.6", "1.0.0.9"} :
         IF text = ""
         THEN pc' = "menu" /\ UNCHANGED request
         ELSE IF ~validate_ip(text) \/ text = str(request.camera)
              THEN UNCHANGED <<pc, request>>
              ELSE /\ request' = [request EXCEPT !.new_ip = text]
                   /\ pc' = "ask_gateway"
    /\ inspected' = NoQuery
    /\ UNCHANGED <<cameras, call, credentials, network_obj, scanner, choice,
                   operation, interrupt, targets, enable_dhcp>>

\* line 748
default_gateway(network) == str(network.network_address + 1)

\* lines 750-753
gateway_or_default(text, default) ==
    LET gateway == IF text = "" THEN default ELSE text
    IN  IF validate_ip(gateway) THEN gateway ELSE default

EnterGateway ==
    /\ pc = "ask_gateway"
    /\ \E text \in {"", "abc", "0.0.0.5", "1.0.0.1"} :
         request' = [request EXCEPT
                        !.gateway = gateway_or_default(text, default_gateway(network_obj))]
    /\ pc' = "ask_prefix_length"
    /\ inspected' = NoQuery
    /\ UNCHANGED <<cameras, call, credentials, network_obj, scanner, choice,
                   operation, interrupt, targets, enable_dhcp>>

\* lines 755-761
prefix_length_or_default(text) ==
    LET n == int(IF text = "" THEN "24" ELSE text)
    IN  IF 8 <= n /\ n <= 30 THEN n ELSE 24

\* lines 767-769: gateway_obj in IPv4Network(f"{new_ip}/{prefix_length}", strict=False)
in_network(gateway, ip, prefix_length) ==
    gateway \div 2^(32 - prefix_length) = ip \div 2^(32 - prefix_length)

\* lines 755-770
EnterPrefixLength ==
    /\ pc = "ask_prefix_length"
    /\ \E text \in {"", "7", "8", "30", "31", "x"} :
         LET prefix_length == prefix_length_or_default(text)
         IN  /\ request' = [request EXCEPT !.prefix_length = prefix_length]
             /\ pc' = IF in_network(IPv4Address(request.gateway),
                                    IPv4Address(request.new_ip), prefix_length)
                      THEN "ask_proceed" ELSE "ask_continue_anyway"
    /\ inspected' = NoQuery
    /\ UNCHANGED <<cameras, call, credentials, network_obj, scanner, choice,
                   operation, interrupt, targets, enable_dhcp>>

\* lines 772-777: the answer to 'Continue anyway?'; a KeyboardInterrupt or an
\* EOFError raised by input() is caught by the bare except of line 776 and
\* the dialogue goes on at line 779
ContinueAnyway ==
    /\ pc = "ask_continue_anyway"
    /\ \/ \E text \in {"y", "YES", "n", ""} :
            /\ IF affirmative(text)
               THEN /\ request' = [request EXCEPT !.override = "confirmed"]
                    /\ pc' = "ask_proceed"
               ELSE pc' = "menu" /\ UNCHANGED request
            /\ UNCHANGED interrupt
       \/ /\ request' = [request EXCEPT !.override = "interrupted"]
          /\ interrupt' = "continue_anyway"
          /\ pc' = "ask_proceed"
    /\ inspected' = NoQuery
    /\ UNCHANGED <<cameras, call, credentials, network_obj, scanner, choice,
                   operation, targets, enable_dhcp>>

\* lines 785-791: the answer to 'Proceed?', and the call
\* execute_ip_change(camera.ip, new_ip, gateway, prefix_length)
Proceed ==
    /\ pc = "ask_proceed"
    /\ \E text \in {"y", "YES", "n", ""} :
         IF affirmative(text)
         THEN /\ old_ip' = request.camera
              /\ new_ip' = IPv4Address(request.new_ip)
              /\ pc' = "get_config"
         ELSE pc' = "menu" /\ UNCHANGED <<old_ip, new_ip>>
    /\ inspected' = NoQuery
    /\ UNCHANGED <<cameras, facts, response, verification, outcome, net,
                   dhcp_response, credentials, network_obj, scanner, session>>

\* a KeyboardInterrupt raised by any other input() reaches line 1288 of run
PromptInterrupted ==
    /\ pc \in {"menu", "select_camera", "get_credentials", "get_network_range",
               "scan_get_credentials", "scan_get_network_range", "ask_new_ip", "ask_gateway", "ask_prefix_length", "ask_proceed"}
    /\ interrupt' = "prompt"
    /\ pc' = "exited"
    /\ inspected' = NoQuery
    /\ UNCHANGED <<cameras, call, credentials, network_obj, scanner, choice,
                   operation, request, targets, enable_dhcp>>

NextMenu ==
    \/ MainMenu
    \/ select_camera
    \/ show_camera_details
    \/ get_credentials
    \/ get_network_range
    \/ EnterNewIp
    \/ EnterGateway
    \/ EnterPrefixLength
    \/ ContinueAnyway
    \/ Proceed
    \/ PromptInterrupted

\* the session at the main menu: as constructed, with no range and an empty
\* Registry, or after a scan of either range
InitMenu ==
    /\ Session
    /\ credentials \in {"", "admin"}
    /\ network_obj \in {p[2] : p \in NetworkTexts} \cup {NoNetwork}
    /\ network_obj = NoNetwork => cameras = <<>>

\* the main menu and the dialogue of change_camera_ip, up to the operations
\* they start
MenuSpec == InitMenu /\ [][NextMenu]_vars

\* lines 1260 and 609-672 as one step: the scan returns one camera for each
\* host of the range that answered, each host once, and the list is stored
ScanReturns ==
    /\ pc = "scan"
    /\ \E list \in ScanResults :
         cameras' = [i \in DOMAIN list |->
                        Camera(network_obj.network_address + list[i].ip, "", "")]
    /\ pc' = "menu"
    /\ inspected' = NoQuery
    /\ UNCHANGED <<call, credentials, network_obj, scanner, session>>

\* lines 791 and 897-1198 as one step: execute_ip_change returns True with
\* the first camera at old_ip moved to new_ip (1110-1117), or returns False
\* or None with the Registry as it was
ExecuteReturns ==
    /\ pc = "get_config"
    /\ \E value \in {"True", "False", "None"} :
         /\ result' = value
         /\ cameras' = IF value = "True"
                       THEN update_camera(cameras, old_ip, new_ip)
                       ELSE cameras
    /\ pc' = "menu"
    /\ inspected' = NoQuery
    /\ UNCHANGED <<old_ip, new_ip, facts, response, verification, ret_line, exc,
                   diag, net, dhcp_response, credentials, network_obj, scanner,
                   session>>

NextSession ==
    \/ NextMenu
    \/ ScanReturns
    \/ ExecuteReturns

\* the object after construction (lines 36-38)
InitSession ==
    /\ Session
    /\ cameras = <<>>
    /\ credentials = ""
    /\ network_obj = NoNetwork

\* a session of the menu loop, each scan and each call of execute_ip_change
\* taken as one step
SessionSpec == InitSession /\ [][NextSession]_vars

\* ----------------------------------------------------------- set_dhcp_mode
\* lines 194-250: what the answer to the request of set_dhcp_mode means; 0
\* when the settle wait and the verification follow, else the line of the
\* return statement
dhcp_mode_outcome(r) ==
    IF r.kind = "Timeout" THEN 244
    ELSE IF r.kind = "ConnectionError" THEN 247
    ELSE IF r.kind = "Exception" THEN 250
    ELSE IF r.status = 200
         THEN IF has_onvif_success(r.text) THEN 0 ELSE 237
         ELSE 240

\* line 216
dhcp_mode_confirmed(config, mode) == config.dhcp_enabled = mode

\* manage_dhcp_settings, choice 1 or 2 (lines 111-114): set_dhcp_mode is
\* called for a camera of the Registry
set_dhcp_mode ==
    /\ pc = "menu"
    /\ \E idx \in DOMAIN cameras : old_ip' = cameras[idx].ip
    /\ enable_dhcp' \in BOOLEAN
    /\ pc' = "dhcp_get_config"
    /\ inspected' = NoQuery
    /\ UNCHANGED <<cameras, new_ip, facts, response, verification, outcome, net,
                   dhcp_response, scan, choice, operation, request, interrupt,
                   targets>>

\* line 128
DhcpGetConfig ==
    /\ pc = "dhcp_get_config"
    /\ \E r \in ConfigResponses(old_ip, old_ip) :
         /\ current_config' = get_current_network_config(r)
         /\ inspected' = Inspected("get_current_network_config", r.status,
                                   get_current_network_config(r))
    /\ net' = Append(net, "get_config")
    /\ pc' = "dhcp_get_interfaces"
    /\ UNCHANGED <<cameras, old_ip, new_ip, all_tokens, interface_token, response,
                   verification, outcome, dhcp_response, scan, session>>

\* lines 129-130
DhcpGetInterfaces ==
    /\ pc = "dhcp_get_interfaces"
    /\ \E r \in InterfaceResponses :
         LET interfaces == get_network_interfaces(r)
             tokens == IF interfaces = {} THEN {"eth0"} ELSE interfaces
         IN  /\ all_tokens' = tokens
             /\ \E t \in tokens : interface_token' = t
             /\ inspected' = Inspected("get_network_interfaces", r.status, interfaces)
    /\ net' = Append(net, "get_interfaces")
    /\ pc' = "dhcp_confirm"
    /\ UNCHANGED <<cameras, old_ip, new_ip, current_config, response, verification,
                   outcome, dhcp_response, scan, session>>

\* lines 136-139
DhcpConfirm ==
    /\ pc = "dhcp_confirm"
    /\ \E text \in {"y", "YES", "n", ""} :
         IF affirmative(text)
         THEN pc' = "dhcp_post" /\ UNCHANGED outcome
         ELSE Return("False", 139, "none", "none")
    /\ inspected' = NoQuery
    /\ UNCHANGED <<cameras, old_ip, new_ip, facts, response, verification, net,
                   dhcp_response, scan, session>>

\* lines 178-184 and 194-250: the request and what its answer means
DhcpPost ==
    /\ pc = "dhcp_post"
    /\ \E r \in PrimaryResponses :
         /\ response' = r
         /\ LET line == dhcp_mode_outcome(r)
            IN  IF line = 0
                THEN pc' = "dhcp_settle" /\ UNCHANGED outcome
                ELSE Return("False", line,
                            IF r.kind = "http" THEN "none" ELSE r.kind, "none")
    /\ net' = Append(net, "set_dhcp")
    /\ targets' = targets \cup {old_ip}
    /\ inspected' = NoQuery
    /\ UNCHANGED <<cameras, old_ip, new_ip, facts, verification, dhcp_response,
                   scan, choice, operation, request, interrupt, enable_dhcp>>

\* line 210: time.sleep(5)
DhcpSettle ==
    /\ pc = "dhcp_settle"
    /\ net' = Append(net, "sleep5")
    /\ pc' = "dhcp_verify"
    /\ inspected' = NoQuery
    /\ UNCHANGED <<cameras, old_ip, new_ip, facts, response, verification, outcome,
                   dhcp_response, scan, session>>

\* lines 214-234: the facts are fetched again and compared with the mode
DhcpVerify ==
    /\ pc = "dhcp_verify"
    /\ \E r \in ConfigResponses(old_ip, old_ip) :
         LET config == get_current_network_config(r)
         IN  /\ new_config' = config
             /\ inspected' = Inspected("get_current_network_config", r.status, config)
             /\ IF dhcp_mode_confirmed(config, enable_dhcp)
                THEN Return("True", 230, "none", "none")
                ELSE Return("False", 234, "none", "none")
    /\ net' = Append(net, "get_config")
    /\ UNCHANGED <<cameras, old_ip, new_ip, facts, response, config_changed,
                   still_at_old, alt_sent, attempt, probe, dhcp_response, scan,
                   session>>

NextDhcp ==
    \/ set_dhcp_mode
    \/ DhcpGetConfig
    \/ DhcpGetInterfaces
    \/ DhcpConfirm
    \/ DhcpPost
    \/ DhcpSettle
    \/ DhcpVerify

\* one call of set_dhcp_mode
DhcpSpec == Init /\ [][NextDhcp]_vars

\* ==================================================================== claims
Has(op) == \E i \in DOMAIN net : net[i] = op
Count(op) == Cardinality({i \in DOMAIN net : net[i] = op})
Returned == pc = "returned"
Answered == response.kind = "http"

\* the claims' own reading of the markers of a response text
FaultMarker(text) == \E f \in text : <<"fault", LowerFragment(f)>> \in SubstringOf
ResponseMarker(text) == \E f \in text : <<"SetNetworkInterfacesResponse", f>> \in SubstringOf
RebootMarker(text) == \E f \in text : <<"RebootNeeded", f>> \in SubstringOf

\* the call stopped at the answer to the primary request: nothing was sent,
\* probed or waited for after it
StoppedAtPrimary == Returned /\ net # <<>> /\ net[Len(net)] = "primary"

\* the call went on to the settle wait after the primary request
Proceeded == response.kind # "none" /\ ~StoppedAtPrimary

\* the first camera at the old address before the step is at the new one after it
RegistryMoved ==
    \E i \in DOMAIN cameras :
        /\ cameras[i].ip = old_ip
        /\ \A j \in 1..(i - 1) : cameras[j].ip # old_ip
        /\ cameras' = [cameras EXCEPT ![i].ip = new_ip]

\* C1: when the answer to the primary request holds a fault marker ('fault' in
\* any letter case), the call never returns True and no step of it changes the
\* Registry, also when the text holds both success markers.
C1_FaultNeverConfirmed ==
    [][(Answered' /\ FaultMarker(response'.text))
          => (result' # "True" /\ cameras' = cameras)]_vars

C1_Witness ==
    /\ Returned
    /\ response = Http(200, {"<s:Fault>", "<tds:SetNetworkInterfacesResponse>",
                             "<tt:RebootNeeded>"})
    /\ result = "False"

\* C2: a step changes the Registry only when it is the attempt of
\* verify_ip_change at which the new address answered the port probe and the
\* identity query, and with that step the call returns True; so a call that
\* does not return True leaves the Registry as it was.
C2_RegistryOnlyAfterVerify ==
    [][cameras' # cameras
          => (/\ pc = "verify"
              /\ probe'.port /\ probe'.identity
              /\ Returned' /\ result' = "True"
              /\ RegistryMoved)]_vars

C2_Witness ==
    /\ Returned
    /\ result = "True"
    /\ \E i \in DOMAIN cameras :
          cameras[i].ip = new_ip /\ cameras[i].name = <<"Camera-", old_ip>>

\* C3: after a recognized primary answer, when the re-fetched facts list the
\* new address the call polls the new address, and the attempt (one of the 10)
\* at which the port probe and the identity query both succeed makes the call
\* return True with the Registry entry of the old address moved to the new one.
C3_ConfirmedWhenListedAndReachable ==
    /\ []((Has("probe_old") /\ config_changed /\ ~alt_sent)
             => (pc = "verify" \/ (Returned /\ attempt >= 1)))
    /\ [][(pc = "verify" /\ ~alt_sent /\ config_changed /\ attempt' = attempt + 1
             /\ probe'.port /\ probe'.identity)
            => (/\ attempt' <= FirstVerifyTimeout
                /\ Returned' /\ result' = "True"
                /\ RegistryMoved)]_vars

C3_Witness ==
    /\ Returned
    /\ result = "True"
    /\ response = Http(200, {"<tds:SetNetworkInterfacesResponse>", "<tt:RebootNeeded>"})
    /\ config_changed
    /\ new_ip \in new_config.addresses
    /\ attempt = 3
    /\ probe.port /\ probe.identity
    /\ \E i \in DOMAIN cameras : cameras[i].ip = new_ip

\* C4: every call of execute_ip_change ends by returning the boolean True or
\* the boolean False.
C4_AlwaysTypedOutcome == Returned => result \in {"True", "False"}

\* C5: an HTTP 401 answer to the primary request ends the call at once with
\* False: no settle wait, no facts re-fetch, no probe and no alternate request
\* follow it.
C5_UnauthorizedStopsAtOnce ==
    (Answered /\ response.status = 401)
        => (StoppedAtPrimary /\ result = "False" /\ attempt = 0 /\ ~alt_sent)

C5_Witness ==
    /\ Returned
    /\ response = Http(401, {"<tds:SetNetworkInterfacesResponse>", "<tt:RebootNeeded>"})
    /\ ret_line = 1180

\* C6 as claimed: the call goes on to the settle wait exactly when the answer
\* is HTTP 200 without a fault marker and with both the
\* SetNetworkInterfacesResponse marker and the RebootNeeded field.
C6_ProceedsIffBothMarkers ==
    response.kind # "none"
        => (Proceeded <=> (/\ Answered /\ response.status = 200
                           /\ ~FaultMarker(response.text)
                           /\ ResponseMarker(response.text)
                           /\ RebootMarker(response.text)))

\* the looser reading the source gives a text: a SetNetworkInterfacesResponse
\* element or the word RebootNeeded in any letter case, and the words of its
\* failure patterns in element content
AnySuccessIndicator(text) ==
    \E f \in text :
        \/ <<"<[^>]*SetNetworkInterfacesResponse", LowerFragment(f)>> \in PatternMatches
        \/ <<"RebootNeeded", LowerFragment(f)>> \in PatternMatches
AnyFailureIndicator(text) ==
    \E f \in text :
        \E p \in failure_patterns : <<p, LowerFragment(f)>> \in PatternMatches

\* C6: the call goes on to the settle wait exactly when the answer is HTTP
\* 200 without a fault marker and either holds both markers, or holds at least
\* one success indicator (a SetNetworkInterfacesResponse element or
\* RebootNeeded, in any letter case) and no failure indicator; an answer with
\* neither marker stops the call before any verification.
C6_ProceedsIffAnyIndicator ==
    response.kind # "none"
        => (Proceeded <=>
              (/\ Answered /\ response.status = 200
               /\ ~FaultMarker(response.text)
               /\ \/ ResponseMarker(response.text) /\ RebootMarker(response.text)
                  \/ AnySuccessIndicator(response.text)
                       /\ ~AnyFailureIndicator(response.text)))

C6_Witness ==
    /\ pc = "refetch"
    /\ response = Http(200, {"<tds:SetNetworkInterfacesResponse>"})
    /\ Has("sleep5")

\* C7: when the old address still answers, the re-fetched facts do not list
\* the new address and there are several interface identifiers, the call
\* sends the alternate request before it returns.
C7_AlternateRequestSent ==
    (/\ Returned /\ Has("probe_old") /\ still_at_old /\ ~config_changed
     /\ Cardinality(all_tokens) > 1)
        => Has("alternative")

\* C8: the alternate request is sent at most once in a call, and the
\* alternate branch is entered, and the request sent, only after the settle
\* wait, the facts re-fetch and the probe of the old address have been done in
\* that order and have failed (old address reachable, new address not listed,
\* new address not polled).
C8_AlternateOnceAfterVerification ==
    /\ Count("alternative") <= 1
    /\ (pc = "alternative" \/ Has("alternative"))
         => /\ \E i \in DOMAIN net :
                  /\ i + 2 <= Len(net)
                  /\ net[i] = "sleep5" /\ net[i + 1] = "get_config"
                  /\ net[i + 2] = "probe_old"
                  /\ \A j \in 1..(i + 2) : net[j] # "alternative"
            /\ still_at_old /\ ~config_changed
            /\ \A j \in DOMAIN net :
                  (net[j] = "poll_new") => \E k \in 1..(j - 1) : net[k] = "alternative"

C8_Witness ==
    /\ pc = "alternative"
    /\ Len(net) >= 3
    /\ SubSeq(net, Len(net) - 2, Len(net)) = <<"sleep5", "get_config", "probe_old">>
    /\ Cardinality(all_tokens) = 2

\* C9: when after a recognized primary answer the old address still answers,
\* the re-fetched facts do not list the new address and there is exactly one
\* interface identifier, the call returns False at once with the Registry as
\* it was and without entering the alternate branch.
C9_SingleTokenFails ==
    [][(/\ pc = "probe_old" /\ pc' # "probe_old"
        /\ still_at_old' /\ ~config_changed /\ Cardinality(all_tokens) = 1)
          => (/\ Returned' /\ result' = "False" /\ exc' = "none"
              /\ cameras' = cameras
              /\ net' = Append(net, "probe_old"))]_vars

C9_Witness ==
    /\ Returned
    /\ Has("probe_old") /\ still_at_old /\ ~config_changed
    /\ Cardinality(all_tokens) = 1
    /\ result = "False" /\ ret_line = 1176
    /\ ~Has("alternative")

\* C10: when the answer to the primary request holds a fault marker, the call
\* has returned with the primary request as its last network action: no
\* settle wait, no facts re-fetch, no probe of the old address and no polling
\* of the new address.
C10_FaultSkipsVerification ==
    (Answered /\ FaultMarker(response.text))
        => (/\ StoppedAtPrimary
            /\ ~Has("sleep5") /\ ~Has("probe_old") /\ ~Has("poll_new")
            /\ attempt = 0)

C10_Witness ==
    /\ Returned
    /\ response = Http(200, {"<s:Fault>"})
    /\ ret_line = 1030
    /\ net[Len(net)] = "primary"

\* the position of the primary request in the log of the call
PrimaryAt == CHOOSE i \in DOMAIN net : net[i] = "primary"

\* C11: every verification action of a call (the re-fetch of the facts, the
\* probe of the old address, each poll of the new address) comes after the
\* settle wait, and the settle wait is the first thing that follows the
\* primary request: nothing is verified between the answer and the wait.
C11_VerificationAfterSettle ==
    IF Has("primary")
    THEN Len(net) > PrimaryAt
            => /\ net[PrimaryAt + 1] = "sleep5"
               /\ primary_outcome(response) = 0
    ELSE ~Has("probe_old") /\ ~Has("poll_new") /\ ~Has("sleep5")

C11_Witness ==
    /\ Has("primary")
    /\ Len(net) = PrimaryAt + 4
    /\ SubSeq(net, PrimaryAt, Len(net))
         = <<"primary", "sleep5", "get_config", "probe_old", "poll_new">>

\* C12: when the old address no longer answers and the new address answers
\* none of the polls of the window, the call reports a failure (returns
\* False) to its caller.
C12_UnreachableReportedAsFailure ==
    (/\ Returned /\ Has("probe_old") /\ ~still_at_old
     /\ attempt = FirstVerifyTimeout /\ ~probe.identity)
        => result = "False"

\* C13: a call that ends unverified although the re-fetched facts list the
\* new address ends with the diagnosis 'config updated but network change
\* failed'; no unverified ending is silent.
C13_ConfigChangedDiagnosed ==
    (Returned /\ Has("probe_old") /\ config_changed /\ result # "True")
        => diag = "config updated but network change failed"

\* the answer to the disable-DHCP request as the claims read it
DhcpAccepted ==
    /\ dhcp_response.kind = "http" /\ dhcp_response.status = 200
    /\ ResponseMarker(dhcp_response.text)

\* the position of the disable-DHCP request in the log of the call
DhcpAt == CHOOSE i \in DOMAIN net : net[i] = "disable_dhcp"

\* C14: once the facts and the interfaces are fetched, the disable-DHCP
\* request is sent exactly when the facts report DHCP enabled, at most once
\* and before the primary request; and whatever the answer to it (accepted,
\* rejected, transport error) the call goes on to send the primary request.
C14_DhcpStepIffEnabledThenPrimary ==
    pc \notin {"menu", "get_config", "get_interfaces"}
        => /\ (pc = "disable_dhcp" \/ Has("disable_dhcp")) <=> current_config.dhcp_enabled
           /\ Count("disable_dhcp") <= 1
           /\ Has("disable_dhcp") => pc = "primary" \/ (Has("primary") /\ DhcpAt < PrimaryAt)
           /\ pc \notin {"disable_dhcp", "primary"} => Has("primary")
           /\ pc \in {"disable_dhcp", "primary"} => ~Returned /\ ~Has("primary")
           /\ pc = "primary" => ENABLED SendPrimary

C14_Witness ==
    /\ current_config.dhcp_enabled
    /\ dhcp_response = Raised("Timeout")
    /\ Has("disable_dhcp") /\ Has("primary") /\ DhcpAt < PrimaryAt

\* C15 as claimed: whenever the disable-DHCP request was sent, a pause lies
\* between it and the primary request.
C15_PauseAfterEveryDhcpRequest ==
    (Has("disable_dhcp") /\ Has("primary")) => net[DhcpAt + 1] = "sleep2"

\* C15: the 2 second pause lies between the disable-DHCP request and the
\* primary request exactly when the answer to the disable-DHCP request was
\* HTTP 200 with the SetNetworkInterfacesResponse marker; after a rejected
\* or failed request the primary request follows at once, and there is no
\* such pause anywhere else in the call.
C15_PauseIffDhcpAccepted ==
    /\ (Has("disable_dhcp") /\ Has("primary"))
         => IF DhcpAccepted
            THEN net[DhcpAt + 1] = "sleep2" /\ PrimaryAt = DhcpAt + 2
            ELSE PrimaryAt = DhcpAt + 1
    /\ Count("sleep2") <= 1
    /\ Has("sleep2") => Has("disable_dhcp") /\ net[DhcpAt + 1] = "sleep2"

C15_Witness ==
    /\ Has("disable_dhcp") /\ Has("primary")
    /\ dhcp_response = Http(401, {})
    /\ PrimaryAt = DhcpAt + 1
    /\ ~Has("sleep2")

\* C16: after a Timeout or a ConnectionError on the primary request the call
\* checks the device at the new address before it returns.
C16_TimeoutChecksNewAddress ==
    (Returned /\ response.kind \in {"Timeout", "ConnectionError"}) => Has("poll_new")

\* the value an Inspector query returns when it has nothing to report
Absent(query) ==
    CASE query = "get_camera_info" -> <<>>
      [] query = "get_network_interfaces" -> {"eth0"}
      [] query = "get_current_network_config" ->
            [addresses |-> {}, interface_tokens |-> {}, dhcp_enabled |-> FALSE,
             full_response |-> {}]

\* C17: an Inspector query whose request failed in transport or was answered
\* with a status other than 200 returns its absent value (None, the list
\* with the default identifier, the empty facts with dhcp_enabled false);
\* the caller receives that value and no exception.
C17_FailedQueryYieldsAbsent ==
    (inspected.query # "none" /\ ~inspected.ok)
        => inspected.value = Absent(inspected.query)

C17_Witness ==
    /\ pc = "primary"
    /\ inspected = Inspected("get_network_interfaces", 404, {"eth0"})
    /\ current_config = Absent("get_current_network_config")
    /\ all_tokens = {"eth0"}

\* the addresses of the cameras of a list

\* the addresses of the scanned range other than its network and broadcast
\* address
UsableHosts ==
    {a \in Addresses :
        /\ network_obj.network_address < a
        /\ a < network_obj.network_address + 2^(AddrBits - network_obj.prefixlen) - 1}

\* the address accepts a connection on one of the configured ports
AcceptsConfiguredPort(a) == accepting[a] \cap {80, 8080} # {}

Scanned == pc = "scanned"

\* C18: at no point of a scan, for any range of any prefix length (the two
\* longest included), is the network address or the broadcast address of the
\* range among the open addresses, the cameras collected or the cameras
\* returned, whatever those two addresses accept.
C18_NeverNetworkOrBroadcast ==
    pc # "menu"
        => LET network == network_obj.network_address
               broadcast == network + 2^(AddrBits - network_obj.prefixlen) - 1
           IN  /\ \A i \in DOMAIN open_ips : open_ips[i] \notin {network, broadcast}
               /\ AddressesOf(found) \cap {network, broadcast} = {}
               /\ AddressesOf(cameras) \cap {network, broadcast} = {}

C18_Witness ==
    /\ Scanned
    /\ network_obj.prefixlen = AddrBits - 1
    /\ 80 \in accepting[network_obj.network_address]
    /\ 80 \in accepting[network_obj.network_address + 1]
    /\ cameras = <<>>

\* C19: the cameras a scan returns are, each exactly once, the usable hosts
\* of the range that accept a connection on at least one configured port.
C19_ExactlyTheAnsweringHosts ==
    Scanned
        => /\ AddressesOf(cameras) = {a \in UsableHosts : AcceptsConfiguredPort(a)}
           /\ \A i, j \in DOMAIN cameras : cameras[i].ip = cameras[j].ip => i = j

C19_Witness ==
    /\ Scanned
    /\ Len(cameras) = 1
    /\ accepting[cameras[1].ip] = {80, 8080}
    /\ \E a \in UsableHosts : accepting[a] = {554}

\* the queries made for the candidate at position i of open_ips
QueriesFor(i) == SelectSeq(queries, LAMBDA q : q.ip = open_ips[i])

\* C20: in Phase 2 the candidates are taken in the order of open_ips; for
\* each the first query carries no credentials, a second query is made only
\* after the first one failed and carries the stored credentials, and the
\* candidate is recorded in every case: with what the answering query told,
\* or as a camera with the default name and empty model and manufacturer
\* when no query answered.  The list returned has one camera per candidate.
C20_AnonymousFirstNoneDropped ==
    /\ Len(found) <= Len(open_ips)
    /\ \A i \in DOMAIN found :
          LET q == QueriesFor(i)
          IN  /\ found[i].ip = open_ips[i]
              /\ Len(q) \in {1, 2}
              /\ q[1].username = ""
              /\ Len(q) = 2 => ~q[1].answered /\ q[2].username = credentials
                                /\ credentials # ""
              /\ ~q[Len(q)].answered
                    => /\ found[i].name = <<"Camera-", open_ips[i]>>
                       /\ found[i].model = "" /\ found[i].manufacturer = ""
    /\ pc = "phase2_auth"
          => LET q == QueriesFor(Len(found) + 1)
             IN  Len(q) = 1 /\ q[1].username = "" /\ ~q[1].answered
    /\ Scanned => Len(cameras) = Len(open_ips) /\ cameras = found

C20_Witness ==
    /\ Scanned
    /\ Len(open_ips) = 1
    /\ credentials = "admin"
    /\ queries = <<[ip |-> open_ips[1], username |-> "", answered |-> FALSE],
                   [ip |-> open_ips[1], username |-> "admin", answered |-> FALSE]>>
    /\ cameras = <<Camera(open_ips[1], "", "")>>

\* C24: get_network_interfaces never returns an empty list: every answer
\* the device may give yields at least one identifier, and an answer from
\* which no identifier is parsed (a 200 answer without tokens, another
\* status, a transport failure) yields the single identifier 'eth0'.
C24_InterfacesNeverEmpty ==
    /\ \A r \in InterfaceResponses :
          /\ get_network_interfaces(r) # {}
          /\ (r.status # 200 \/ r.elements \cup r.attributes = {})
                => get_network_interfaces(r) = {"eth0"}
    /\ inspected.query = "get_network_interfaces"
          => inspected.value # {} /\ all_tokens # {} /\ interface_token \in all_tokens

C24_Witness ==
    /\ inspected = Inspected("get_network_interfaces", 200, {"eth0"})
    /\ current_config.interface_tokens = {}
    /\ all_tokens = {"eth0"}
    /\ interface_token = "eth0"

\* the requests of a call that change the device
Mutating == {"disable_dhcp", "primary", "alternative"}

\* C27 as claimed: between any two mutating requests of a call the facts are
\* fetched.
C27_FetchBetweenMutations ==
    \A i, j \in DOMAIN net :
        (i < j /\ net[i] \in Mutating /\ net[j] \in Mutating)
            => \E k \in (i + 1)..(j - 1) : net[k] = "get_config"

\* C27: the facts are fetched first of all, before any mutating request, and
\* again right after the settle wait that follows a recognized primary
\* request; between the disable-DHCP request and the primary request there
\* is at most the pause and no fetch of the facts.
C27_FetchAtStartAndAfterPrimary ==
    /\ net # <<>> => net[1] = "get_config"
    /\ (Has("primary") /\ Len(net) >= PrimaryAt + 2) => net[PrimaryAt + 2] = "get_config"
    /\ (Has("disable_dhcp") /\ Has("primary"))
          => \A k \in (DhcpAt + 1)..(PrimaryAt - 1) : net[k] = "sleep2"

C27_Witness ==
    /\ Len(net) >= 6
    /\ SubSeq(net, 1, 6) = <<"get_config", "get_interfaces", "disable_dhcp",
                              "primary", "sleep5", "get_config">>

\* C29: once the old address has been probed after a recognized primary
\* answer, the new address is polled exactly when the re-fetched facts list
\* it or the old address refused the connection; with the old address still
\* answering and the facts unchanged there is no poll of the new address.
C29_PollingIffGateOpen ==
    (Has("probe_old") /\ ~alt_sent)
        => ((pc = "verify" \/ Has("poll_new")) <=> (config_changed \/ ~still_at_old))

C29_Witness ==
    /\ Has("probe_old") /\ ~alt_sent
    /\ ~config_changed /\ ~still_at_old
    /\ net[Len(net)] = "poll_new"
    /\ attempt = 1

\* C30: when every network call returns, every call of execute_ip_change
\* that has started returns; the polling of the new address makes at most
\* 10 attempts and the call ends with the attempt that succeeds or with the
\* last one.
C30_EveryCallReturns ==
    /\ [](attempt <= FirstVerifyTimeout)
    /\ [](pc = "verify" => attempt < FirstVerifyTimeout)
    /\ (pc = "get_config") ~> Returned

C30_Witness ==
    /\ Returned
    /\ attempt = FirstVerifyTimeout
    /\ ~probe.identity
    /\ net[Len(net)] = "poll_new"


\* C21: when a scan of a range follows a scan of the same range with nothing
\* else in between and the hosts accept connections as before, the cameras
\* it returns have the addresses of the cameras the first one returned
C21_RescanSameAddresses ==
    Scanned /\ previous # <<>> => AddressesOf(cameras) = previous[1]

\* a second scan ran with two worker threads and returned two cameras
C21_Witness ==
    /\ Scanned
    /\ previous # <<>>
    /\ Cardinality(previous[1]) = 2
    /\ max_threads = 2
    /\ Len(cameras) = 2

\* C22: in Phase 1 no more futures are in flight than scan_threads worker
\* threads exist, and a scan probes every usable host of the range once and
\* no other address
C22_ProbesBoundedAndOncePerHost ==
    /\ Cardinality(running) <= max_threads
    /\ \A a \in Addresses : probed[a] <= 1
    /\ pc \in {"phase2", "phase2_auth", "scanned"} =>
         \A a \in Addresses : probed[a] = IF a \in UsableHosts THEN 1 ELSE 0

\* one worker thread for two usable hosts: one future runs, one waits
C22_Witness ==
    /\ pc = "phase1"
    /\ max_threads = 1
    /\ Cardinality(running) = 1
    /\ Cardinality(queued) = 1
    /\ Cardinality(UsableHosts) = 2

\* C23: while the futures of Phase 1 run, in whatever order they complete,
\* the range, the ports' world, the thread count and the credentials are
\* only read, and the Registry changes in no step but the one in which
\* scan_network_for_cameras returns, where it becomes the list returned
C23_RegistryUntouchedDuringScan ==
    [][/\ pc = "phase1" =>
            UNCHANGED <<network_obj, accepting, max_threads, credentials, found>>
       /\ cameras' # cameras =>
            /\ pc \in {"phase1", "phase2", "phase2_auth"}
            /\ pc' = "scanned"
            /\ cameras' = found']_vars

\* of two futures in flight one has completed and reported an open address,
\* the other still runs, and the Registry is as it was
C23_Witness ==
    /\ pc = "phase1"
    /\ Cardinality(running) = 1
    /\ max_threads = 2
    /\ Len(open_ips) = 1
    /\ cameras = <<>>

\* C25: once a KeyboardInterrupt was delivered during a settle wait or the
\* polling of the new address, the call is over with control back at the
\* menu loop, nothing more is sent or probed, and the Registry is as it was
C25_InterruptAbortsToMenu ==
    interrupt # "none" =>
        /\ pc \in {"menu", "returned"}
        /\ \A i \in DOMAIN cameras : cameras[i].ip # new_ip

\* the gateway of the request lies in the network of its new address
GatewayInSubnet ==
    in_network(IPv4Address(request.gateway), IPv4Address(request.new_ip),
               request.prefix_length)

\* C26: when change_camera_ip calls execute_ip_change, the new address is a
\* valid address other than the camera's, the prefix length is in 8..30, and
\* the gateway is in the subnet of the new address or the user answered yes
\* to 'Continue anyway?'
C26_RequestSatisfiesInvariant ==
    pc = "get_config" =>
        /\ validate_ip(request.new_ip)
        /\ IPv4Address(request.new_ip) # request.camera
        /\ request.prefix_length \in 8..30
        /\ GatewayInSubnet \/ request.override = "confirmed"

\* the operation a label of the menu names
LabelledOperation(label) ==
    CASE label \in {"Scan for cameras", "Refresh camera list"} ->
           "scan_network_for_cameras"
      [] label = "Change camera IP" -> "change_camera_ip"
      [] label = "Set/Remove DHCP" -> "manage_dhcp_settings"
      [] label = "Show camera details" -> "show_camera_details"
      [] label = "Set credentials" -> "get_credentials"
      [] label = "Change network" -> "get_network_range"
      [] label = "Exit" -> "exit"
      [] OTHER -> "invalid"

\* C28: the branch run() takes for a choice is the operation the label of
\* that choice names
C28_LabelsDispatched ==
    operation # "none" => operation = LabelledOperation(menu_label(choice))

\* the mutating requests of the call, in the order they were sent
MutatingSent ==
    SelectSeq(net, LAMBDA op : op \in Mutating)

\* C31: a call sends at most one disable-DHCP request, then the primary
\* request once, then at most one alternate request, none of them twice; a
\* call that has returned has sent the primary request; and each of these
\* requests went to the old address
C31_NoRequestRetried ==
    /\ MutatingSent \in {<<>>, <<"disable_dhcp">>, <<"primary">>,
                         <<"disable_dhcp", "primary">>,
                         <<"primary", "alternative">>,
                         <<"disable_dhcp", "primary", "alternative">>}
    /\ Returned => Has("primary")
    /\ targets \subseteq {old_ip}

\* a call that sent the disable-DHCP request and the primary request has
\* returned
C31_Witness ==
    /\ Returned
    /\ MutatingSent = <<"disable_dhcp", "primary">>
    /\ targets = {old_ip}

\* the identity queries made so far for the candidate at position i of open_ips
QueriesOfCandidate(i) == {k \in DOMAIN queries : queries[k].ip = open_ips[i]}

\* C32: an identity query is made only when no future of Phase 1 is queued or
\* running and every usable host has been probed; and the queries are made
\* for one candidate at a time: all those made so far are for the candidates
\* already recorded or for the next one, which has one query open exactly
\* while its second query is due
C32_QueriesAfterAllProbesOneAtATime ==
    (queries # <<>> \/ pc \in {"phase2", "phase2_auth"}) =>
        /\ pending = {}
        /\ running = {}
        /\ \A a \in UsableHosts : probed[a] = 1
        /\ \A k \in DOMAIN queries :
              \E i \in 1..Len(open_ips) :
                 i <= Len(found) + 1 /\ queries[k].ip = open_ips[i]
        /\ Len(found) < Len(open_ips) =>
              Cardinality(QueriesOfCandidate(Len(found) + 1))
                 = IF pc = "phase2_auth" THEN 1 ELSE 0

\* with two worker threads, Phase 1 found two open addresses; the first is
\* recorded and the second has had its query without credentials
C32_Witness ==
    /\ pc = "phase2_auth"
    /\ max_threads = 2
    /\ Len(open_ips) = 2
    /\ Len(found) = 1
    /\ Cardinality(QueriesOfCandidate(2)) = 1

\* C33: no two cameras of the Registry have the same address
C33_RegistryAddressesDistinct ==
    \A i, j \in DOMAIN cameras : i # j => cameras[i].ip # cameras[j].ip

\* C34: True is returned only when the facts fetched from the old address
\* after the change list the new address
C34_ConfirmedOnlyWhenFactsListNewAddress ==
    result = "True" => facts_list(new_config, new_ip)

\* C35: the step in which the call returns True changes, in the Registry, the
\* address of the one camera that was at the old address and nothing else:
\* the number of cameras, the other cameras and the name, manufacturer, model
\* and reachable flag of that camera stay; the range and the credentials stay
C35_ConfirmedChangesOnlyOneAddress ==
    [][(result # "True" /\ result' = "True") =>
          /\ Len(cameras') = Len(cameras)
          /\ \E i \in DOMAIN cameras :
                /\ cameras[i].ip = old_ip
                /\ \A j \in DOMAIN cameras : j # i => cameras[j].ip # old_ip
                /\ cameras' = [cameras EXCEPT ![i].ip = new_ip]
          /\ UNCHANGED <<network_obj, credentials>>]_vars

\* a call returned True with two cameras in the Registry: the second one is
\* at the new address under its first name, the first one is as it was
C35_Witness ==
    /\ result = "True"
    /\ Len(cameras) = 2
    /\ cameras[2].ip = new_ip
    /\ cameras[2].name = <<"Camera-", old_ip>>
    /\ cameras[1] \in {Camera(ip, "", "") : ip \in IPs \ {old_ip}}

\* C36: every camera of the Registry has an address of the range that is set
C36_RegistryInsideActiveRange ==
    \A i \in DOMAIN cameras :
        /\ network_obj # NoNetwork
        /\ in_network(cameras[i].ip, network_obj.network_address,
                      network_obj.prefixlen)

\* the prompts of change_camera_ip and the call it ends with
Reconfiguring ==
    pc \in {"ask_new_ip", "ask_gateway", "ask_prefix_length",
            "ask_continue_anyway", "ask_proceed", "get_config"}

\* C37: while change_camera_ip runs, up to its call of execute_ip_change, the
\* Registry is not empty, a user name is stored and the camera it was given
\* is in the Registry; and a scan starts only with a valid range set
C37_ReconfigurationAndScanGuarded ==
    /\ Reconfiguring =>
          /\ cameras # <<>>
          /\ credentials # ""
          /\ \E i \in DOMAIN cameras : cameras[i].ip = request.camera
    /\ pc = "scan" => \E p \in NetworkTexts : network_obj = p[2]

\* the call is made for the second of two cameras
C37_Witness ==
    /\ pc = "get_config"
    /\ Len(cameras) = 2
    /\ old_ip = cameras[2].ip
    /\ credentials = "admin"

\* C38: set_dhcp_mode returns True only when the answer to its request was
\* HTTP 200 with both success markers and the facts fetched after the wait
\* came from an answer of the device and give the mode asked for
C38_DhcpTrueOnlyWhenFactsObtained ==
    result = "True" =>
        /\ response.kind = "http" /\ response.status = 200
        /\ In("SetNetworkInterfacesResponse", response.text)
        /\ In("RebootNeeded", response.text)
        /\ inspected.query = "get_current_network_config" /\ inspected.ok
        /\ new_config.dhcp_enabled = enable_dhcp
====
